---- MODULE Spec2Model ----
(***************************************************************************)
(* Model of PyFunceble.query.collection.CollectionQueryTool: its validated *)
(* configuration knobs, the resolution of their values at construction,    *)
(* the lazily guessed API generation (is_modern_api) and the outbound      *)
(* requests of pull and push.                                              *)
(*                                                                         *)
(* Python values are records [type, val]: type is the Python type name and *)
(* val the value written as a sequence of one-character strings, so that   *)
(* str.startswith, str.rstrip, str.lower and the f-strings are computed    *)
(* character by character.                                                 *)
(***************************************************************************)
EXTENDS Integers, Sequences, FiniteSets, TLC

VARIABLES
    phase,                    \* "new" before __init__ has run, then "ready" or "raised"
    token,                    \* self._token
    url_base,                 \* self._url_base
    preferred_status_origin,  \* self._preferred_status_origin
    is_modern_api,            \* self._is_modern_api: None, True or False
    timeout,                  \* self._timeout
    session,                  \* self.session: its default Authorization header
    last,                     \* the last call: operation, arguments, outcome, requests sent
    url_input,                \* the value the url_base setter accepted last, as given
    probes,                   \* GET requests sent by ensure_is_modern_api_is_set so far
    calls                     \* the pull and push calls of two threads, step by step

vars == <<phase, token, url_base, preferred_status_origin, is_modern_api,
          timeout, session, last, url_input, probes, calls>>

(***************************************************************************)
(* Bounds.                                                                 *)
(***************************************************************************)
\* the most trailing "/" an URL given to the url_base setter carries
MaxSlashes == 2

(***************************************************************************)
(* Python values.                                                          *)
(***************************************************************************)
Str(chars) == [type |-> "str", val |-> chars]

NoneV == [type |-> "NoneType", val |-> <<>>]

TrueV == [type |-> "bool", val |-> <<"True">>]

FalseV == [type |-> "bool", val |-> <<"False">>]

IntV(digits) == [type |-> "int", val |-> digits]

FloatV(digits) == [type |-> "float", val |-> digits]

\* bool(value) for the values the program tests: None, a bool or a str
Truthy(value) ==
    CASE value.type = "NoneType" -> FALSE
      [] value.type = "bool" -> value = TrueV
      [] value.type = "str" -> value.val # <<>>
      [] OTHER -> TRUE

\* s.startswith(prefix)
StartsWith(s, prefix) ==
    /\ Len(s) >= Len(prefix)
    /\ SubSeq(s, 1, Len(prefix)) = prefix

\* s.rstrip("/")
RECURSIVE RStrip(_)
RStrip(s) ==
    IF s # <<>> /\ s[Len(s)] = "/" THEN RStrip(SubSeq(s, 1, Len(s) - 1)) ELSE s

\* c.lower(), for one character
LowerChar(c) ==
    CASE c = "A" -> "a" [] c = "B" -> "b" [] c = "I" -> "i" [] c = "L" -> "l"
      [] c = "N" -> "n" [] c = "S" -> "s" [] c = "T" -> "t" [] c = "V" -> "v"
      [] c = "X" -> "x" [] c = "Y" -> "y"
      [] OTHER -> c

\* s.lower()
Lower(s) == [i \in 1..Len(s) |-> LowerChar(s[i])]

(***************************************************************************)
(* Class attributes.                                                       *)
(***************************************************************************)
SUPPORTED_CHECKERS ==
    { <<"s","y","n","t","a","x">>,
      <<"r","e","p","u","t","a","t","i","o","n">>,
      <<"a","v","a","i","l","a","b","i","l","i","t","y">> }

SUPPORTED_STATUS_ORIGIN ==
    { <<"f","r","e","q","u","e","n","t">>,
      <<"l","a","t","e","s","t">>,
      <<"r","e","c","o","m","m","e","n","d","e","d">> }

STD_URL_BASE ==
    Str(<<"h","t","t","p",":","/","/","l","o","c","a","l","h","o","s","t",
          ":","8","0","0","1">>)

STD_PREFERRED_STATUS_ORIGIN == Str(<<"f","r","e","q","u","e","n","t">>)

STD_TIMEOUT == FloatV(<<"5",".","0">>)

\* the attributes of the class, before __init__ assigns any
ClassDefaults ==
    [ token |-> NoneV,
      url_base |-> NoneV,
      preferred_status_origin |-> NoneV,
      is_modern_api |-> NoneV,
      timeout |-> FloatV(<<"5",".","0">>),
      session |-> NoneV,
      url_input |-> NoneV ]

(***************************************************************************)
(* The result of a method: the object after it, the exception it raised    *)
(* ("None" when it returned), and the requests it sent.                    *)
(***************************************************************************)
Returned(s) == [self |-> s, exc |-> "None", reqs |-> <<>>]

Raised(s, exception) == [self |-> s, exc |-> exception, reqs |-> <<>>]

(***************************************************************************)
(* The validating property setters.                                        *)
(***************************************************************************)
\* a setter that forgets the guessed generation with the old token
token_setter_resets(s, value) ==
    IF value.type # "str"
    THEN Raised(s, "TypeError")
    ELSE Returned([s EXCEPT !.token = value, !.is_modern_api = NoneV])

token_setter(s, value) ==
    IF value.type # "str"
    THEN Raised(s, "TypeError")
    ELSE Returned([s EXCEPT !.token = value])

HTTP == <<"h","t","t","p">>

HTTPS == <<"h","t","t","p","s">>

\* a setter that keeps the trailing "/"
url_base_setter_unstripped(s, value) ==
    IF value.type # "str"
    THEN Raised(s, "TypeError")
    ELSE IF ~(StartsWith(value.val, HTTP) \/ StartsWith(value.val, HTTPS))
    THEN Raised(s, "ValueError")
    ELSE Returned([s EXCEPT !.url_base = value, !.url_input = value])

url_base_setter(s, value) ==
    IF value.type # "str"
    THEN Raised(s, "TypeError")
    ELSE IF ~(StartsWith(value.val, HTTP) \/ StartsWith(value.val, HTTPS))
    THEN Raised(s, "ValueError")
    ELSE Returned([s EXCEPT !.url_base = Str(RStrip(value.val)),
                            !.url_input = value])

is_modern_api_setter(s, value) ==
    IF value.type # "bool"
    THEN Raised(s, "TypeError")
    ELSE Returned([s EXCEPT !.is_modern_api = value])

\* isinstance(value, (int, float)): a bool is an int
timeout_setter(s, value) ==
    IF value.type \notin {"int", "float", "bool"}
    THEN Raised(s, "TypeError")
    ELSE Returned([s EXCEPT !.timeout = value])

preferred_status_origin_setter(s, value) ==
    IF value.type # "str"
    THEN Raised(s, "TypeError")
    ELSE IF value.val \notin SUPPORTED_STATUS_ORIGIN
    THEN Raised(s, "ValueError")
    ELSE Returned([s EXCEPT !.preferred_status_origin = value])

(***************************************************************************)
(* The ambient sources of __init__ and of the guess_* methods.  A loaded   *)
(* configuration is [loaded, url_base, preferred_status_origin, timeout];  *)
(* an environment variable is [exists, value].                             *)
(***************************************************************************)
\* EnvironmentVariableHelper(name).get_value(default=default)
EnvGetValue(variable, default) ==
    IF variable.exists THEN variable.value ELSE default

\* a result, with whether PYFUNCEBLE_COLLECTION_API_URL was looked up for it
Consulting(flag, r) ==
    [self |-> r.self, exc |-> r.exc, reqs |-> r.reqs, env_consulted |-> flag]

\* a guess that looks at the environment before the loaded configuration
guess_url_base_env_first(s, cfg, envr) ==
    IF envr.url.exists
    THEN Consulting(TRUE, url_base_setter(s, EnvGetValue(envr.url, NoneV)))
    ELSE IF cfg.loaded /\ cfg.url_base.type = "str"
    THEN Consulting(TRUE, url_base_setter(s, cfg.url_base))
    ELSE Consulting(TRUE, url_base_setter(s, STD_URL_BASE))

guess_and_set_url_base(s, cfg, envr) ==
    IF cfg.loaded
    THEN IF cfg.url_base.type = "str"
         THEN Consulting(FALSE, url_base_setter(s, cfg.url_base))
         ELSE Consulting(FALSE, url_base_setter(s, STD_URL_BASE))
    ELSE IF envr.url.exists
    THEN Consulting(TRUE, url_base_setter(s, EnvGetValue(envr.url, NoneV)))
    ELSE Consulting(TRUE, url_base_setter(s, STD_URL_BASE))

guess_and_set_preferred_status_origin(s, cfg) ==
    IF cfg.loaded
    THEN IF cfg.preferred_status_origin.type = "str"
         THEN preferred_status_origin_setter(s, cfg.preferred_status_origin)
         ELSE preferred_status_origin_setter(s, STD_PREFERRED_STATUS_ORIGIN)
    ELSE preferred_status_origin_setter(s, STD_PREFERRED_STATUS_ORIGIN)

guess_and_set_timeout(s, cfg) ==
    IF cfg.loaded
    THEN timeout_setter(s, cfg.timeout)
    ELSE timeout_setter(s, STD_TIMEOUT)

\* f"Bearer {token}"
Bearer(tok) == Str(<<"B","e","a","r","e","r"," ">> \o tok.val)

\* CollectionQueryTool(token=, url_base=, preferred_status_origin=, timeout=)
CollectionQueryTool(args, cfg, envr) ==
    LET r1 == IF args.token # NoneV
              THEN token_setter(ClassDefaults, args.token)
              ELSE token_setter(ClassDefaults, EnvGetValue(envr.token, Str(<<>>)))
        r2 == IF r1.exc # "None" THEN Consulting(FALSE, r1)
              ELSE IF args.url_base # NoneV
              THEN Consulting(FALSE, url_base_setter(r1.self, args.url_base))
              ELSE guess_and_set_url_base(r1.self, cfg, envr)
        r3 == IF r2.exc # "None" THEN r2
              ELSE IF args.preferred_status_origin # NoneV
              THEN preferred_status_origin_setter(r2.self, args.preferred_status_origin)
              ELSE guess_and_set_preferred_status_origin(r2.self, cfg)
        r4 == IF r3.exc # "None" THEN r3
              ELSE IF args.timeout # NoneV
              THEN timeout_setter(r3.self, args.timeout)
              ELSE guess_and_set_timeout(r3.self, cfg)
        r5 == IF r4.exc # "None" THEN r4
              ELSE Returned([r4.self EXCEPT !.session =
                       [Authorization |-> IF Truthy(r4.self.token)
                                          THEN Bearer(r4.self.token)
                                          ELSE NoneV]])
    IN  Consulting(r2.env_consulted, r5)

(***************************************************************************)
(* The transport.  What a request meets is an input of the call that sends *)
(* it: a response with a status and a body that parses as JSON or not, or  *)
(* a requests.RequestException (connection failure, timeout).              *)
(***************************************************************************)
Response(status, json) == [kind |-> "response", status |-> status, json |-> json]

Failure(kind) == [kind |-> kind, status |-> 0, json |-> FALSE]

Outcomes ==
    { Response(200, TRUE), Response(200, FALSE), Response(201, TRUE),
      Response(500, TRUE), Failure("ConnectionError"), Failure("Timeout") }

\* session.get / session.post: the request as sent, with what it met
Request(site, method, s, route, checker_type, payload, outcome) ==
    [ site |-> site,
      method |-> method,
      url |-> [base |-> s.url_base.val, route |-> route, checker_type |-> checker_type],
      payload |-> payload,
      timeout |-> s.timeout,
      outcome |-> outcome ]

\* response.raise_for_status() raises requests.HTTPError
\* the body of a request: json= or data=, and what is serialized into it
Payload(enc, content, subject) == [enc |-> enc, content |-> content, subject |-> subject]

\* a probe that takes only status 200 for a success
RaisesForAnyOther(outcome) == outcome.status # 200

RaisesForStatus(outcome) == outcome.status >= 400 /\ outcome.status < 600

\* a POST that returns the body whatever the status
AnswersAnyStatus(outcome) == outcome.kind = "response" /\ outcome.json

\* the try block of a POST: response.json(), then status_code == 200
\* TRUE when the method returns response_json, FALSE when it returns None
AnswersJson(outcome) ==
    /\ outcome.kind = "response"
    /\ outcome.json
    /\ outcome.status = 200

RetNone == [kind |-> "None", of |-> ""]

RetSelf == [kind |-> "self", of |-> ""]

RetJson(site) == [kind |-> "response_json", of |-> site]

(***************************************************************************)
(* The API generation.                                                     *)
(***************************************************************************)
guess_and_set_is_modern_api(s, outcome) ==
    IF Truthy(s.token)
    THEN LET sent == Request("guess_and_set_is_modern_api", "GET", s,
                             "/v1/stats/subject", <<>>,
                             Payload("none", "", NoneV), outcome)
             guessed == IF outcome.kind # "response" \/ RaisesForStatus(outcome)
                        THEN TrueV
                        ELSE FalseV
             r == is_modern_api_setter(s, guessed)
         IN  [self |-> r.self, exc |-> r.exc, reqs |-> <<sent>>, ret |-> RetSelf]
    ELSE LET r == is_modern_api_setter(s, FalseV)
         IN  [self |-> r.self, exc |-> r.exc, reqs |-> <<>>, ret |-> RetSelf]

\* a wrapper that guesses on every call
ensure_always_guesses(s, outcome) == guess_and_set_is_modern_api(s, outcome)

\* the wrapper of the decorated methods, up to its call of func
ensure_is_modern_api_is_set(s, outcome) ==
    IF s.is_modern_api = NoneV
    THEN guess_and_set_is_modern_api(s, outcome)
    ELSE [self |-> s, exc |-> "None", reqs |-> <<>>, ret |-> RetSelf]

(***************************************************************************)
(* pull                                                                    *)
(***************************************************************************)
\* a route choice with the token test the wrong way round
PullRouteSwapped(s) ==
    IF Truthy(s.is_modern_api)
    THEN IF ~Truthy(s.token)
         THEN "/v1/aggregation/subject/search"
         ELSE "/v1/hub/aggregation/subject/search"
    ELSE "/v1/subject/search"

PullRoute(s) ==
    IF Truthy(s.is_modern_api)
    THEN IF Truthy(s.token)
         THEN "/v1/aggregation/subject/search"
         ELSE "/v1/hub/aggregation/subject/search"
    ELSE "/v1/subject/search"

pull(s, subject, oProbe, oPost) ==
    LET w == ensure_is_modern_api_is_set(s, oProbe)
        sent == Request("pull", "POST", w.self, PullRoute(w.self), <<>>,
                        Payload("json", "subject", subject), oPost)
    IN  IF subject.type # "str"
        THEN [self |-> w.self, exc |-> "TypeError", reqs |-> w.reqs, ret |-> RetNone]
        ELSE [self |-> w.self, exc |-> "None", reqs |-> w.reqs \o <<sent>>,
              ret |-> IF AnswersJson(oPost) THEN RetJson("pull") ELSE RetNone]

(***************************************************************************)
(* push.  A checker status is [recognised, subject, checker_type,          *)
(* has_expiration_date, expiration_date]: recognised says whether it is an *)
(* instance of one of the three status classes.                            *)
(***************************************************************************)
PushStatusRoute(s) ==
    IF Truthy(s.is_modern_api)
    THEN IF ~Truthy(s.token)
         THEN "/v1/hub/status/{checker_type}"
         ELSE "/v1/contracts/self-delivery"
    ELSE "/v1/status/{checker_type}"

\* the checker type, where the route has a place for it
RouteCheckerType(route, checker_type) ==
    IF route \in {"/v1/hub/status/{checker_type}", "/v1/status/{checker_type}"}
    THEN checker_type
    ELSE <<>>

\* a status submission that looks at the checker type before the token
push_status_type_first(s, checker_type, outcome) ==
    IF checker_type \notin SUPPORTED_CHECKERS
    THEN [self |-> s, exc |-> "ValueError", reqs |-> <<>>, ret |-> RetNone]
    ELSE IF ~Truthy(s.token)
    THEN [self |-> s, exc |-> "None", reqs |-> <<>>, ret |-> RetNone]
    ELSE [self |-> s, exc |-> "None",
          reqs |-> <<Request("__push_status", "POST", s, PushStatusRoute(s),
                             RouteCheckerType(PushStatusRoute(s), checker_type),
                             Payload("data", "to_json", NoneV), outcome)>>,
          ret |-> IF AnswersJson(outcome) THEN RetJson("__push_status") ELSE RetNone]

\* __push_status(checker_type, data), data being checker_status.to_json(), a str
push_status(s, checker_type, outcome) ==
    IF ~Truthy(s.token)
    THEN [self |-> s, exc |-> "None", reqs |-> <<>>, ret |-> RetNone]
    ELSE IF checker_type \notin SUPPORTED_CHECKERS
    THEN [self |-> s, exc |-> "ValueError", reqs |-> <<>>, ret |-> RetNone]
    ELSE LET route == PushStatusRoute(s)
             sent == Request("__push_status", "POST", s, route,
                             RouteCheckerType(route, checker_type),
                             Payload("data", "to_json", NoneV), outcome)
         IN  [self |-> s, exc |-> "None", reqs |-> <<sent>>,
              ret |-> IF AnswersJson(outcome) THEN RetJson("__push_status") ELSE RetNone]

\* __push_whois(data), data being the checker status: its to_dict() is posted
push_whois(s, outcome) ==
    IF ~Truthy(s.token)
    THEN [self |-> s, exc |-> "None", reqs |-> <<>>, ret |-> RetNone]
    ELSE LET sent == Request("__push_whois", "POST", s, "/v1/status/whois", <<>>,
                             Payload("json", "to_dict", NoneV), outcome)
         IN  [self |-> s, exc |-> "None", reqs |-> <<sent>>,
              ret |-> IF AnswersJson(outcome) THEN RetJson("__push_whois") ELSE RetNone]

\* a WHOIS submission whatever the generation
WantsWhoisAlways(s, checker_status) ==
    /\ checker_status.has_expiration_date
    /\ Truthy(checker_status.expiration_date)

\* the condition of line 574: a WHOIS record goes first
WantsWhois(s, checker_status) ==
    /\ ~Truthy(s.is_modern_api)
    /\ checker_status.has_expiration_date
    /\ Truthy(checker_status.expiration_date)

push(s, checker_status, oProbe, oWhois, oStatus) ==
    LET w == ensure_is_modern_api_is_set(s, oProbe)
        raises(exception) ==
            [self |-> w.self, exc |-> exception, reqs |-> w.reqs, ret |-> RetNone]
    IN  IF ~checker_status.recognised THEN raises("TypeError")
        ELSE IF checker_status.subject.type # "str" THEN raises("TypeError")
        ELSE IF checker_status.checker_type.type # "str" THEN raises("TypeError")
        ELSE IF checker_status.subject.val = <<>> THEN raises("ValueError")
        ELSE LET wh == IF WantsWhois(w.self, checker_status)
                       THEN push_whois(w.self, oWhois)
                       ELSE [self |-> w.self, exc |-> "None", reqs |-> <<>>,
                             ret |-> RetNone]
                 st == push_status(wh.self, Lower(checker_status.checker_type.val),
                                   oStatus)
             IN  [self |-> st.self, exc |-> st.exc,
                  reqs |-> w.reqs \o wh.reqs \o st.reqs, ret |-> st.ret]

(***************************************************************************)
(* guess_all_settings: every guess_* method, in the order of dir(self).    *)
(***************************************************************************)
guess_all_settings(s, cfg, envr, oProbe) ==
    LET r1 == guess_and_set_is_modern_api(s, oProbe)
        r2 == IF r1.exc # "None" THEN r1
              ELSE guess_and_set_preferred_status_origin(r1.self, cfg)
        r3 == IF r2.exc # "None" THEN r2
              ELSE guess_and_set_timeout(r2.self, cfg)
        r4 == IF r3.exc # "None" THEN Consulting(FALSE, r3)
              ELSE guess_and_set_url_base(r3.self, cfg, envr)
    IN  [self |-> r4.self, exc |-> r4.exc, reqs |-> r1.reqs, ret |-> RetSelf,
         env_consulted |-> r4.env_consulted]

(***************************************************************************)
(* The values the calls are given.                                         *)
(***************************************************************************)
Slashes(k) == [i \in 1..k |-> "/"]

TOK == Str(<<"t","o","k">>)

EMPTY == Str(<<>>)

LATEST == Str(<<"l","a","t","e","s","t">>)

TokenValues == {EMPTY, TOK, IntV(<<"1">>)}

\* "http", "http://a", "ftp" and "ftp://a" with 0..MaxSlashes trailing "/",
\* the empty string and a value that is no str
UrlValues ==
    { Str(scheme \o rest \o Slashes(k)) :
        scheme \in {HTTP, <<"f","t","p">>},
        rest \in {<<>>, <<":","/","/","a">>},
        k \in 0..MaxSlashes }
    \cup {EMPTY, NoneV}

OriginValues ==
    {LATEST, Str(<<"r","e","c","o","m","m","e","n","d","e","d">>),
     Str(<<"b","a","d">>), NoneV}

TimeoutValues == {IntV(<<"3">>), TrueV, Str(<<"3">>), NoneV}

GenerationValues == {TrueV, FalseV, NoneV}

SubjectValues == {Str(<<"a",".","b">>), IntV(<<"1">>)}

Absent == [exists |-> FALSE, value |-> EMPTY]

Present(value) == [exists |-> TRUE, value |-> value]

NotLoaded ==
    [loaded |-> FALSE, url_base |-> NoneV, preferred_status_origin |-> NoneV,
     timeout |-> NoneV]

Configurations ==
    {NotLoaded} \cup
    [ loaded : {TRUE},
      url_base : {Str(HTTPS \o <<":","/","/","c","/">>), NoneV},
      preferred_status_origin : {LATEST, Str(<<"b","a","d">>), NoneV},
      timeout : {IntV(<<"3">>), NoneV} ]

Environments ==
    [ url : {Absent, Present(Str(HTTP \o <<":","/","/","e","/">>)),
             Present(Str(<<"e">>))},
      token : {Absent, Present(TOK)} ]

ConstructorArgs ==
    [ token : {NoneV, EMPTY, TOK},
      url_base : {NoneV, Str(HTTP \o <<":","/","/","a","/">>), Str(<<"a">>)},
      preferred_status_origin : {NoneV, LATEST, Str(<<"b","a","d">>)},
      timeout : {NoneV, IntV(<<"3">>), Str(<<"3">>)} ]

NotRecognised ==
    [recognised |-> FALSE, subject |-> NoneV, checker_type |-> NoneV,
     has_expiration_date |-> FALSE, expiration_date |-> NoneV]

CheckerStatuses ==
    {NotRecognised} \cup
    { st \in [ recognised : {TRUE},
               subject : {Str(<<"a",".","b">>), EMPTY, IntV(<<"1">>)},
               checker_type : {Str(<<"S","Y","N","T","A","X">>),
                               Str(<<"a","v","a","i","l","a","b","i","l","i","t","y">>),
                               Str(<<"x">>), NoneV},
               has_expiration_date : BOOLEAN,
               expiration_date : {NoneV, EMPTY, Str(<<"2","0","3","0">>)} ] :
        ~st.has_expiration_date => st.expiration_date = NoneV }

(***************************************************************************)
(* The state.                                                              *)
(***************************************************************************)
Self ==
    [ token |-> token,
      url_base |-> url_base,
      preferred_status_origin |-> preferred_status_origin,
      is_modern_api |-> is_modern_api,
      timeout |-> timeout,
      session |-> session,
      url_input |-> url_input ]

Gets(reqs) == Cardinality({i \in DOMAIN reqs : reqs[i].method = "GET"})

\* the object and the record of the call after operation op, given args, ended as r
Done(op, args, r, ret, consulted) ==
    /\ token' = r.self.token
    /\ url_base' = r.self.url_base
    /\ preferred_status_origin' = r.self.preferred_status_origin
    /\ is_modern_api' = r.self.is_modern_api
    /\ timeout' = r.self.timeout
    /\ session' = r.self.session
    /\ url_input' = r.self.url_input
    /\ last' = [op |-> op, args |-> args, exc |-> r.exc,
                ret |-> IF r.exc = "None" THEN ret ELSE RetNone,
                reqs |-> r.reqs, env_consulted |-> consulted]
    /\ probes' = IF op \in {"pull", "push"} THEN probes + Gets(r.reqs) ELSE probes
    /\ UNCHANGED calls

\* the outcomes to draw for a request that is sent only if needed
OutcomesIf(needed, outcomes) == IF needed THEN outcomes ELSE {Failure("unsent")}

(***************************************************************************)
(* Two threads that share the instance.  Each makes one call; its frame is *)
(* [op, args, pc, exc, ret, reqs, stored, decided_under, routed_under]:    *)
(* pc is the place the thread has reached, stored the generation its own   *)
(* probe assigned, decided_under the generation push read at line 575 and  *)
(* routed_under the one __push_status read at line 632.                    *)
(***************************************************************************)
Threads == {"t1", "t2"}

Idle ==
    [ op |-> "none", args |-> NoneV, pc |-> "idle", exc |-> "None",
      ret |-> RetNone, reqs |-> <<>>, stored |-> NoneV,
      decided_under |-> NoneV, routed_under |-> NoneV ]

NoCalls == [t \in Threads |-> Idle]

(***************************************************************************)
(* Construction.                                                           *)
(***************************************************************************)
InitNew ==
    /\ phase = "new"
    /\ token = ClassDefaults.token
    /\ url_base = ClassDefaults.url_base
    /\ preferred_status_origin = ClassDefaults.preferred_status_origin
    /\ is_modern_api = ClassDefaults.is_modern_api
    /\ timeout = ClassDefaults.timeout
    /\ session = ClassDefaults.session
    /\ url_input = ClassDefaults.url_input
    /\ last = [op |-> "class", args |-> NoneV, exc |-> "None", ret |-> RetNone,
               reqs |-> <<>>, env_consulted |-> FALSE]
    /\ probes = 0
    /\ calls = NoCalls

\* __init__, its arguments and the ambient sources kept in the record of the call
Construct ==
    /\ phase = "new"
    /\ \E args \in ConstructorArgs, cfg \in Configurations, envr \in Environments :
         \E r \in {CollectionQueryTool(args, cfg, envr)} :
             /\ Done("__init__", [args |-> args, cfg |-> cfg, envr |-> envr], r,
                     RetSelf, r.env_consulted)
             /\ phase' = IF r.exc = "None" THEN "ready" ELSE "raised"

\* an instance after a construction that did not raise, the arguments and
\* the ambient sources drawn from the given sets
Constructed(argset, cfgset, envset) ==
    \E args \in argset, cfg \in cfgset, envr \in envset :
        \E r \in {CollectionQueryTool(args, cfg, envr)} :
            /\ r.exc = "None"
            /\ phase = "ready"
            /\ token = r.self.token
            /\ url_base = r.self.url_base
            /\ preferred_status_origin = r.self.preferred_status_origin
            /\ is_modern_api = r.self.is_modern_api
            /\ timeout = r.self.timeout
            /\ session = r.self.session
            /\ url_input = r.self.url_input
            /\ last = [op |-> "__init__", args |-> NoneV, exc |-> "None",
                       ret |-> RetSelf, reqs |-> <<>>, env_consulted |-> FALSE]
            /\ probes = 0
            /\ calls = NoCalls

\* any construction
InitAny == Constructed(ConstructorArgs, Configurations, Environments)

\* the constructions with no configuration loaded and no environment variable:
\* with or without a token, with the standard or with a given url_base and timeout
Init ==
    Constructed({ args \in [ token : {EMPTY, TOK},
                             url_base : {NoneV, Str(HTTP \o <<":","/","/","a","/">>)},
                             preferred_status_origin : {NoneV},
                             timeout : {NoneV, IntV(<<"3">>)} ] :
                    args.url_base = NoneV <=> args.timeout = NoneV },
                {NotLoaded},
                {[url |-> Absent, token |-> Absent]})

(***************************************************************************)
(* The public methods.                                                     *)
(***************************************************************************)
set_token(values) ==
    /\ phase = "ready"
    /\ \E value \in values :
         \E r \in {token_setter(Self, value)} :
            Done("set_token", value, r, RetSelf, FALSE)
    /\ UNCHANGED phase

set_url_base(values) ==
    /\ phase = "ready"
    /\ \E value \in values :
         \E r \in {url_base_setter(Self, value)} :
            Done("set_url_base", value, r, RetSelf, FALSE)
    /\ UNCHANGED phase

set_is_modern_api(values) ==
    /\ phase = "ready"
    /\ \E value \in values :
         \E r \in {is_modern_api_setter(Self, value)} :
            Done("set_is_modern_api", value, r, RetSelf, FALSE)
    /\ UNCHANGED phase

set_timeout(values) ==
    /\ phase = "ready"
    /\ \E value \in values :
         \E r \in {timeout_setter(Self, value)} :
            Done("set_timeout", value, r, RetSelf, FALSE)
    /\ UNCHANGED phase

set_preferred_status_origin(values) ==
    /\ phase = "ready"
    /\ \E value \in values :
         \E r \in {preferred_status_origin_setter(Self, value)} :
            Done("set_preferred_status_origin", value, r, RetSelf, FALSE)
    /\ UNCHANGED phase

GuessIsModernApi(outcomes) ==
    /\ phase = "ready"
    /\ \E outcome \in OutcomesIf(Truthy(token), outcomes) :
         \E r \in {guess_and_set_is_modern_api(Self, outcome)} :
            Done("guess_and_set_is_modern_api", NoneV, r, RetSelf, FALSE)
    /\ UNCHANGED phase

GuessAllSettings(cfgset, envset, outcomes) ==
    /\ phase = "ready"
    /\ \E cfg \in cfgset, envr \in envset,
          outcome \in OutcomesIf(Truthy(token), outcomes) :
         /\ \E r \in {guess_all_settings(Self, cfg, envr, outcome)} :
               Done("guess_all_settings", [cfg |-> cfg, envr |-> envr], r,
                    RetSelf, r.env_consulted)
    /\ UNCHANGED phase

\* the four checks push makes of its argument before it sends anything
Submittable(checker_status) ==
    /\ checker_status.recognised
    /\ checker_status.subject.type = "str"
    /\ checker_status.checker_type.type = "str"
    /\ checker_status.subject.val # <<>>

Pull(subjects, outcomes) ==
    /\ phase = "ready"
    /\ \E subject \in subjects,
          oProbe \in OutcomesIf(is_modern_api = NoneV /\ Truthy(token), outcomes) :
         \E oPost \in OutcomesIf(subject.type = "str", outcomes) :
            \E r \in {pull(Self, subject, oProbe, oPost)} :
               Done("pull", subject, r, r.ret, FALSE)
    /\ UNCHANGED phase

Push(statuses, outcomes) ==
    /\ phase = "ready"
    /\ \E checker_status \in statuses,
          oProbe \in OutcomesIf(is_modern_api = NoneV /\ Truthy(token), outcomes) :
         \E w \in {ensure_is_modern_api_is_set(Self, oProbe)} :
            \E oWhois \in OutcomesIf(/\ Submittable(checker_status)
                                     /\ Truthy(token)
                                     /\ WantsWhois(w.self, checker_status), outcomes),
               oStatus \in OutcomesIf(/\ Submittable(checker_status)
                                      /\ Truthy(token)
                                      /\ Lower(checker_status.checker_type.val)
                                            \in SUPPORTED_CHECKERS, outcomes) :
               \E r \in {push(Self, checker_status, oProbe, oWhois, oStatus)} :
                  Done("push", checker_status, r, r.ret, FALSE)
    /\ UNCHANGED phase

(***************************************************************************)
(* pull and push step by step, as two threads run them on one instance.    *)
(* A thread can be suspended between any two steps; a step reads or writes *)
(* is_modern_api once, or holds the requests of one method.                *)
(***************************************************************************)
\* what a call leaves alone: everything but is_modern_api
Knobs == <<phase, token, url_base, preferred_status_origin, timeout, session,
           last, url_input>>

\* the checks of push, lines 549 to 572: the exception raised, or "None"
push_input_error(checker_status) ==
    IF ~checker_status.recognised THEN "TypeError"
    ELSE IF checker_status.subject.type # "str" THEN "TypeError"
    ELSE IF checker_status.checker_type.type # "str" THEN "TypeError"
    ELSE IF checker_status.subject.val = <<>> THEN "ValueError"
    ELSE "None"

\* a thread calls pull(subject) or push(checker_status)
StartCall(subjects, statuses) ==
    /\ phase = "ready"
    /\ \E t \in Threads :
         /\ calls[t].pc = "idle"
         /\ \E op \in {"pull", "push"} :
              \E args \in IF op = "pull" THEN subjects ELSE statuses :
                 calls' = [calls EXCEPT ![t] =
                             [@ EXCEPT !.op = op, !.args = args, !.pc = "wrapper"]]
    /\ UNCHANGED <<Knobs, is_modern_api, probes>>

\* wrapper, line 457: if self.is_modern_api is None
WrapperTest ==
    /\ \E t \in Threads :
         /\ calls[t].pc = "wrapper"
         /\ calls' = [calls EXCEPT ![t].pc =
                         IF is_modern_api = NoneV THEN "guess" ELSE "func"]
    /\ UNCHANGED <<Knobs, is_modern_api, probes>>

\* guess_and_set_is_modern_api up to its GET: with a token the thread waits
\* for the answer, without one it assigns at line 372
ProbeSend ==
    /\ \E t \in Threads :
         /\ calls[t].pc = "guess"
         /\ IF Truthy(token)
            THEN /\ calls' = [calls EXCEPT ![t].pc = "probing"]
                 /\ UNCHANGED is_modern_api
            ELSE \E r \in {guess_and_set_is_modern_api(Self, Failure("unsent"))} :
                    /\ is_modern_api' = r.self.is_modern_api
                    /\ calls' = [calls EXCEPT ![t] =
                                   [@ EXCEPT !.pc = "func",
                                             !.stored = r.self.is_modern_api]]
    /\ UNCHANGED <<Knobs, probes>>

\* the GET is answered or fails, and the thread assigns is_modern_api
ProbeAnswered(outcomes) ==
    /\ \E t \in Threads :
         /\ calls[t].pc = "probing"
         /\ \E outcome \in outcomes :
              \E r \in {guess_and_set_is_modern_api(Self, outcome)} :
                 /\ is_modern_api' = r.self.is_modern_api
                 /\ probes' = probes + Gets(r.reqs)
                 /\ calls' = [calls EXCEPT ![t] =
                                [@ EXCEPT !.pc = "func",
                                          !.reqs = @ \o r.reqs,
                                          !.stored = r.self.is_modern_api]]
    /\ UNCHANGED Knobs

\* the body of pull, lines 479 to 521: is_modern_api is read once, at line 484
PullBody(outcomes) ==
    /\ \E t \in Threads :
         /\ calls[t].pc = "func"
         /\ calls[t].op = "pull"
         /\ is_modern_api # NoneV
         /\ \E oPost \in OutcomesIf(calls[t].args.type = "str", outcomes) :
              \E r \in {pull(Self, calls[t].args, Failure("unsent"), oPost)} :
                 calls' = [calls EXCEPT ![t] =
                             [@ EXCEPT !.pc = "done",
                                       !.exc = r.exc,
                                       !.ret = r.ret,
                                       !.reqs = @ \o r.reqs]]
    /\ UNCHANGED <<Knobs, is_modern_api, probes>>

\* the body of push up to line 579: the checks, the test of line 575 and the
\* WHOIS submission it asks for
PushBody(outcomes) ==
    /\ \E t \in Threads :
         /\ calls[t].pc = "func"
         /\ calls[t].op = "push"
         /\ IF push_input_error(calls[t].args) # "None"
            THEN calls' = [calls EXCEPT ![t] =
                             [@ EXCEPT !.pc = "done",
                                       !.exc = push_input_error(calls[t].args)]]
            ELSE \E oWhois \in OutcomesIf(/\ Truthy(token)
                                          /\ WantsWhois(Self, calls[t].args),
                                          outcomes) :
                    \E wh \in {IF WantsWhois(Self, calls[t].args)
                               THEN push_whois(Self, oWhois)
                               ELSE [self |-> Self, exc |-> "None", reqs |-> <<>>,
                                     ret |-> RetNone]} :
                       calls' = [calls EXCEPT ![t] =
                                   [@ EXCEPT !.pc = "status",
                                             !.reqs = @ \o wh.reqs,
                                             !.decided_under = is_modern_api]]
    /\ UNCHANGED <<Knobs, is_modern_api, probes>>

\* lines 581 to 585: __push_status, which reads is_modern_api at line 632
PushStatus(outcomes) ==
    /\ \E t \in Threads :
         /\ calls[t].pc = "status"
         /\ \E oStatus \in OutcomesIf(/\ Truthy(token)
                                      /\ Lower(calls[t].args.checker_type.val)
                                            \in SUPPORTED_CHECKERS, outcomes) :
              \E st \in {push_status(Self, Lower(calls[t].args.checker_type.val),
                                     oStatus)} :
                 calls' = [calls EXCEPT ![t] =
                             [@ EXCEPT !.pc = "done",
                                       !.exc = st.exc,
                                       !.ret = st.ret,
                                       !.reqs = @ \o st.reqs,
                                       !.routed_under =
                                          IF st.reqs # <<>> THEN is_modern_api
                                          ELSE NoneV]]
    /\ UNCHANGED <<Knobs, is_modern_api, probes>>

(***************************************************************************)
(* Specifications.                                                         *)
(***************************************************************************)
\* the calls that reach the network, and the two knobs they read
Next ==
    \/ set_token(TokenValues)
    \/ set_is_modern_api(GenerationValues)
    \/ GuessIsModernApi(Outcomes)
    \/ Pull(SubjectValues, Outcomes)
    \/ Push(CheckerStatuses, Outcomes)

Spec == Init /\ [][Next]_vars

\* pull and push alone
NextPP ==
    \/ Pull(SubjectValues, Outcomes)
    \/ Push(CheckerStatuses, Outcomes)

SpecPP == Init /\ [][NextPP]_vars

\* the configuration knobs, from any construction
NextCfg ==
    \/ set_token(TokenValues)
    \/ set_url_base(UrlValues)
    \/ set_timeout(TimeoutValues)
    \/ set_preferred_status_origin(OriginValues)

SpecCfg == InitAny /\ [][NextCfg]_vars

\* the construction itself
NextCtor == Construct

SpecCtor == InitNew /\ [][NextCtor]_vars

\* every public method, each with one accepted and one rejected input: a request
\* is answered with a body, answered with an error status, or times out
FewOutcomes == {Response(200, TRUE), Response(500, TRUE), Failure("Timeout")}

FewStatuses ==
    { st \in CheckerStatuses :
        /\ st.recognised
        /\ st.subject \in {Str(<<"a",".","b">>), EMPTY}
        /\ st.checker_type = Str(<<"S","Y","N","T","A","X">>)
        /\ st.has_expiration_date
        /\ st.expiration_date = Str(<<"2","0","3","0">>) }

FewConfigurations ==
    { cfg \in Configurations :
        /\ cfg.url_base.type = "str"
        /\ cfg.preferred_status_origin = LATEST }

NextAll ==
    \/ set_token({EMPTY, TOK, IntV(<<"1">>)})
    \/ set_url_base({Str(HTTP \o <<":","/","/","a","/">>), Str(<<"f","t","p">>)})
    \/ set_timeout({IntV(<<"3">>), NoneV})
    \/ set_preferred_status_origin({LATEST, NoneV})
    \/ set_is_modern_api(GenerationValues)
    \/ GuessIsModernApi(FewOutcomes)
    \/ GuessAllSettings(FewConfigurations, {[url |-> Absent, token |-> Absent]},
                        FewOutcomes)
    \/ Pull(SubjectValues, FewOutcomes)
    \/ Push(FewStatuses, FewOutcomes)

SpecAll == Init /\ [][NextAll]_vars

\* two threads, each with one pull or one push, on a new instance
RaceSubjects == {Str(<<"a",".","b">>)}

RaceStatuses ==
    { st \in CheckerStatuses :
        /\ st.recognised
        /\ st.subject \in {Str(<<"a",".","b">>), EMPTY}
        /\ st.checker_type \in {Str(<<"S","Y","N","T","A","X">>), Str(<<"x">>)}
        /\ st.has_expiration_date
        /\ st.expiration_date = Str(<<"2","0","3","0">>) }

NextRace ==
    \/ StartCall(RaceSubjects, RaceStatuses)
    \/ WrapperTest
    \/ ProbeSend
    \/ ProbeAnswered(FewOutcomes)
    \/ PullBody(FewOutcomes)
    \/ PushBody(FewOutcomes)
    \/ PushStatus(FewOutcomes)

SpecRace == Init /\ [][NextRace]_vars

(***************************************************************************)
(* Properties.                                                             *)
(***************************************************************************)
\* the URL of a request
Url(base, route, checker_type) ==
    [base |-> base.val, route |-> route, checker_type |-> checker_type]

\* the requests of the last call sent from the given method
SentFrom(site) == {i \in DOMAIN last.reqs : last.reqs[i].site = site}

\* C1: a client with an empty token and an unknown generation answers its
\* first pull(s) without a GET, with the generation set to modern, and with
\* one request: a POST to <url_base>/v1/hub/aggregation/subject/search with
\* the body {"subject": s} and the configured timeout.
C1_AnonymousFirstPullIsModern ==
    [][ ( /\ token = EMPTY
          /\ is_modern_api = NoneV
          /\ last'.op = "pull"
          /\ last'.exc = "None" )
        => /\ is_modern_api' = TrueV
           /\ Len(last'.reqs) = 1
           /\ last'.reqs[1].method = "POST"
           /\ last'.reqs[1].url =
                 Url(url_base, "/v1/hub/aggregation/subject/search", <<>>)
           /\ last'.reqs[1].payload = Payload("json", "subject", last'.args)
           /\ last'.reqs[1].timeout = timeout ]_vars

\* C2: with a token and an unknown generation the probe sends one GET to
\* <url_base>/v1/stats/subject with the configured timeout; the generation
\* becomes legacy exactly when the GET is answered with a status below 400
\* and modern on every failure, error status or unparsable answer; the probe
\* does not raise.
C2_ProbeDecidesGeneration ==
    [][ ( /\ Truthy(token)
          /\ is_modern_api = NoneV
          /\ last'.op \in {"guess_and_set_is_modern_api", "pull", "push"} )
        => /\ Len(last'.reqs) >= 1
           /\ last'.reqs[1].method = "GET"
           /\ last'.reqs[1].url = Url(url_base, "/v1/stats/subject", <<>>)
           /\ last'.reqs[1].timeout = timeout
           /\ \A i \in 2..Len(last'.reqs) : last'.reqs[i].method # "GET"
           /\ is_modern_api' =
                 IF /\ last'.reqs[1].outcome.kind = "response"
                    /\ last'.reqs[1].outcome.status \in 100..399
                 THEN FalseV
                 ELSE TrueV
           /\ last'.op = "guess_and_set_is_modern_api" => last'.exc = "None" ]_vars

\* a pull probed, its GET was answered 201, and the generation is legacy
C2_Witness ==
    /\ last.op = "pull"
    /\ Len(last.reqs) = 2
    /\ last.reqs[1].method = "GET"
    /\ last.reqs[1].outcome = Response(201, TRUE)
    /\ is_modern_api = FalseV

\* C3: over a sequence of pull and push calls the probe GET is sent at most
\* once, before any POST of the call that sends it, and every later call
\* keeps the generation stored then, sends no GET and picks its routes by it.
C3_ProbeOnceThenCached ==
    [][ last'.op \in {"pull", "push"}
        => /\ probes' <= 1
           /\ probes' = probes + Cardinality({i \in DOMAIN last'.reqs :
                                               last'.reqs[i].method = "GET"})
           /\ \A i \in DOMAIN last'.reqs : last'.reqs[i].method = "GET" => i = 1
           /\ is_modern_api # NoneV => is_modern_api' = is_modern_api
           /\ is_modern_api' \in {TrueV, FalseV}
           /\ \A i \in DOMAIN last'.reqs :
                 LET sent == last'.reqs[i]
                 IN  /\ sent.site = "pull" =>
                          (sent.url.route = "/v1/subject/search"
                             <=> is_modern_api' = FalseV)
                     /\ sent.site = "__push_status" =>
                          (sent.url.route = "/v1/status/{checker_type}"
                             <=> is_modern_api' = FalseV)
                     /\ sent.site = "__push_whois" => is_modern_api' = FalseV ]_vars

\* a push after the call that probed: two POST, no GET
C3_Witness ==
    /\ probes = 1
    /\ last.op = "push"
    /\ Len(last.reqs) = 2
    /\ \A i \in DOMAIN last.reqs : last.reqs[i].method = "POST"

\* the POST requests of the last call, in the order sent
IsPost(sent) == sent.method = "POST"

Posts == SelectSeq(last.reqs, IsPost)

\* a status push accepts: recognised, a non-empty subject, a supported type
Accepted(checker_status) ==
    /\ checker_status.recognised
    /\ checker_status.subject.type = "str"
    /\ checker_status.subject.val # <<>>
    /\ checker_status.checker_type.type = "str"
    /\ Lower(checker_status.checker_type.val) \in SUPPORTED_CHECKERS

\* the answer a POST must meet for its body to be returned
Status200WithJson(outcome) ==
    /\ outcome.kind = "response"
    /\ outcome.status = 200
    /\ outcome.json

\* C4 as stated: the generation starts unknown, and once it is legacy or
\* modern no public operation changes it.
C4_GenerationSetOnce ==
    /\ [](last.op = "__init__" => is_modern_api = NoneV)
    /\ [][ /\ is_modern_api' \in {NoneV, TrueV, FalseV}
           /\ is_modern_api # NoneV => is_modern_api' = is_modern_api ]_vars

\* C4, amended: the generation starts unknown and never returns to unknown;
\* once it is legacy or modern, pull, push, set_token, set_url_base,
\* set_timeout and set_preferred_status_origin leave it as it is, and only
\* set_is_modern_api, guess_and_set_is_modern_api and guess_all_settings
\* overwrite it.
C4_GenerationKeptByPullPushAndKnobs ==
    /\ [](last.op = "__init__" => is_modern_api = NoneV)
    /\ [][ /\ is_modern_api' \in {NoneV, TrueV, FalseV}
           /\ is_modern_api # NoneV => is_modern_api' # NoneV
           /\ ( /\ is_modern_api # NoneV
                /\ last'.op \notin {"set_is_modern_api",
                                    "guess_and_set_is_modern_api",
                                    "guess_all_settings"} )
              => is_modern_api' = is_modern_api ]_vars

\* the generation was probed by an earlier call, and a token was set since
C4_Witness ==
    /\ probes = 1
    /\ is_modern_api # NoneV
    /\ last.op = "set_token"
    /\ last.exc = "None"

\* C5: with a token and an accepted status, a push under the legacy
\* generation with a truthy expiration date sends exactly two POST, WHOIS
\* then status, whatever the WHOIS POST meets; under the modern generation
\* it sends exactly one POST, the status, with or without expiration date.
C5_PushSendsWhoisThenStatus ==
    ( /\ last.op = "push"
      /\ Truthy(token)
      /\ Accepted(last.args) )
    => /\ ( /\ is_modern_api = FalseV
            /\ last.args.has_expiration_date
            /\ Truthy(last.args.expiration_date) )
          => /\ Len(Posts) = 2
             /\ Posts[1].site = "__push_whois"
             /\ Posts[1].url = Url(url_base, "/v1/status/whois", <<>>)
             /\ Posts[2].site = "__push_status"
       /\ is_modern_api = TrueV
          => /\ Len(Posts) = 1
             /\ Posts[1].site = "__push_status"

\* a legacy push whose WHOIS POST timed out and whose status POST followed
C5_Witness ==
    /\ last.op = "push"
    /\ is_modern_api = FalseV
    /\ Len(Posts) = 2
    /\ Posts[1].site = "__push_whois"
    /\ Posts[1].outcome = Failure("Timeout")
    /\ Posts[2].site = "__push_status"

\* C6: without a token, a push of a recognised status with a non-empty
\* subject returns None and sends nothing, for every checker type (a str),
\* supported or not, and every expiration date.
C6_PushWithoutTokenIsNoOp ==
    ( /\ last.op = "push"
      /\ ~Truthy(token)
      /\ last.args.recognised
      /\ last.args.subject.type = "str"
      /\ last.args.subject.val # <<>>
      /\ last.args.checker_type.type = "str" )
    => /\ last.exc = "None"
       /\ last.ret = [kind |-> "None", of |-> ""]
       /\ last.reqs = <<>>

\* a push without token of an unsupported checker type with an expiration date
C6_Witness ==
    /\ last.op = "push"
    /\ ~Truthy(token)
    /\ last.args.recognised
    /\ last.args.subject = Str(<<"a",".","b">>)
    /\ last.args.checker_type = Str(<<"x">>)
    /\ Truthy(last.args.expiration_date)
    /\ last.exc = "None"

\* C7: whatever its requests meet, pull with a str subject and push with an
\* accepted status do not raise; pull returns the body of its POST, and push
\* the body of its status POST, exactly when that POST is answered 200 with
\* a body that parses, and None otherwise.
C7_SoftFailure ==
    /\ last.op = "pull" =>
          /\ last.exc # "None" => last.args.type # "str"
          /\ last.ret = IF \E i \in SentFrom("pull") :
                              Status200WithJson(last.reqs[i].outcome)
                        THEN [kind |-> "response_json", of |-> "pull"]
                        ELSE [kind |-> "None", of |-> ""]
    /\ last.op = "push" =>
          /\ last.exc # "None" => ~Accepted(last.args)
          /\ last.ret = IF \E i \in SentFrom("__push_status") :
                              Status200WithJson(last.reqs[i].outcome)
                        THEN [kind |-> "response_json", of |-> "__push_status"]
                        ELSE [kind |-> "None", of |-> ""]

\* a push whose WHOIS POST was answered 500 returns the body of its status POST
C7_Witness ==
    /\ last.op = "push"
    /\ Len(last.reqs) = 2
    /\ last.reqs[1].site = "__push_whois"
    /\ last.reqs[1].outcome = Response(500, TRUE)
    /\ last.reqs[2].outcome = Response(200, TRUE)
    /\ last.ret.kind = "response_json"

\* C8: every POST of pull and of the status push goes to the route of the
\* interface table for its purpose, the cached generation and the presence
\* of a token, under the configured url_base; nothing is sent to
\* /v1/hub/status/{checker_type}.
C8_Routes ==
    last.op \in {"pull", "push"} =>
    \A i \in DOMAIN last.reqs :
        LET sent == last.reqs[i]
        IN  /\ sent.site = "pull" =>
                 sent.url =
                    Url(url_base,
                        IF is_modern_api = FalseV THEN "/v1/subject/search"
                        ELSE IF Truthy(token) THEN "/v1/aggregation/subject/search"
                        ELSE "/v1/hub/aggregation/subject/search",
                        <<>>)
            /\ sent.site = "__push_status" =>
                 /\ Truthy(token)
                 /\ sent.url =
                       IF is_modern_api = FalseV
                       THEN Url(url_base, "/v1/status/{checker_type}",
                                Lower(last.args.checker_type.val))
                       ELSE Url(url_base, "/v1/contracts/self-delivery", <<>>)
            /\ sent.url.route # "/v1/hub/status/{checker_type}"
            /\ is_modern_api \in {TrueV, FalseV}

\* a pull without token under the modern generation
C8_Witness ==
    /\ last.op = "pull"
    /\ ~Truthy(token)
    /\ is_modern_api = TrueV
    /\ Len(last.reqs) = 1
    /\ last.reqs[1].url.route = "/v1/hub/aggregation/subject/search"

\* trimmed is given without its trailing "/"
IsRightTrimOf(trimmed, given) ==
    /\ trimmed = <<>> \/ trimmed[Len(trimmed)] # "/"
    /\ \E k \in 0..Len(given) : given = trimmed \o Slashes(k)

LOCALHOST_8001 ==
    Str(<<"h","t","t","p",":","/","/","l","o","c","a","l","h","o","s","t",
          ":","8","0","0","1">>)

\* C9 as stated: after construction url_base is (trimmed of its trailing
\* "/") the explicit value if one is given, else the value of the loaded
\* configuration if one is loaded, else the value of the environment
\* variable if it exists, else "http://localhost:8001"; the environment
\* variable is not looked up when a configuration is loaded.
C9_UrlBaseFromConfigurationWhenLoaded ==
    (phase = "ready" /\ last.op = "__init__") =>
    LET given == last.args.args.url_base
        cfg == last.args.cfg
        variable == last.args.envr.url
        source == IF given # NoneV THEN given
                  ELSE IF cfg.loaded THEN cfg.url_base
                  ELSE IF variable.exists THEN variable.value
                  ELSE LOCALHOST_8001
    IN  /\ source.type = "str"
        /\ url_base.type = "str"
        /\ IsRightTrimOf(url_base.val, source.val)
        /\ cfg.loaded => ~last.env_consulted

\* C9, amended: a loaded configuration gives url_base only when its value is
\* a str; when it is not, url_base is "http://localhost:8001"; the rest of
\* the order is as stated, and the environment variable is not looked up
\* when a configuration is loaded.
C9_UrlBasePrecedence ==
    (phase = "ready" /\ last.op = "__init__") =>
    LET given == last.args.args.url_base
        cfg == last.args.cfg
        variable == last.args.envr.url
        source == IF given # NoneV THEN given
                  ELSE IF cfg.loaded
                  THEN IF cfg.url_base.type = "str" THEN cfg.url_base
                       ELSE LOCALHOST_8001
                  ELSE IF variable.exists THEN variable.value
                  ELSE LOCALHOST_8001
    IN  /\ source.type = "str"
        /\ url_base.type = "str"
        /\ IsRightTrimOf(url_base.val, source.val)
        /\ cfg.loaded => ~last.env_consulted

\* constructed with no explicit url_base, a loaded configuration whose
\* url_base is no str, and the environment variable set
C9_Witness ==
    /\ phase = "ready"
    /\ last.op = "__init__"
    /\ last.args.args.url_base = NoneV
    /\ last.args.cfg.loaded
    /\ last.args.cfg.url_base = NoneV
    /\ last.args.envr.url.exists
    /\ url_base = LOCALHOST_8001

\* C10: a setter call that raises leaves token, url_base,
\* preferred_status_origin and timeout as they were; in every state after
\* construction url_base is not empty, starts with http and is the last
\* accepted input without its trailing "/", and preferred_status_origin is
\* frequent, latest or recommended.
C10_SettersValidateBeforeAssigning ==
    /\ []( phase = "ready" =>
             /\ url_base.type = "str"
             /\ Len(url_base.val) >= 4
             /\ <<url_base.val[1], url_base.val[2], url_base.val[3],
                  url_base.val[4]>> = <<"h","t","t","p">>
             /\ url_input.type = "str"
             /\ IsRightTrimOf(url_base.val, url_input.val)
             /\ preferred_status_origin \in
                   { Str(<<"f","r","e","q","u","e","n","t">>),
                     Str(<<"l","a","t","e","s","t">>),
                     Str(<<"r","e","c","o","m","m","e","n","d","e","d">>) } )
    /\ [][ ( /\ last'.op \in {"set_token", "set_url_base", "set_timeout",
                              "set_preferred_status_origin"}
             /\ last'.exc # "None" )
           => /\ last'.exc \in {"TypeError", "ValueError"}
              /\ token' = token
              /\ url_base' = url_base
              /\ preferred_status_origin' = preferred_status_origin
              /\ timeout' = timeout ]_vars

\* an url_base given with two trailing "/", then a set_url_base that raised
C10_Witness ==
    /\ last.op = "set_url_base"
    /\ last.exc = "ValueError"
    /\ url_base = Str(<<"h","t","t","p",":","/","/","a">>)
    /\ url_input = Str(<<"h","t","t","p",":","/","/","a","/","/">>)

\* C11: when two threads call pull or push on an instance with a token and
\* an unknown generation, a probe never replaces a stored generation by the
\* other one, and every push reads at line 632 the generation it read at
\* line 575.
C11_RedundantProbesIdempotent ==
    /\ [][ (Truthy(token) /\ is_modern_api # NoneV)
             => is_modern_api' = is_modern_api ]_vars
    /\ []( Truthy(token) =>
             \A t \in Threads :
                 ( /\ calls[t].op = "push"
                   /\ calls[t].decided_under # NoneV
                   /\ calls[t].routed_under # NoneV )
                 => calls[t].decided_under = calls[t].routed_under )

\* C12: a pull or push call that raises for its input (a subject that is no
\* str, a status of no recognised type, an empty subject, a checker type that
\* is no str or is not supported) has sent no request, neither GET nor POST,
\* and leaves is_modern_api as it was before the call.
C12_InputErrorSendsNothing ==
    [][ ( /\ last'.op \in {"pull", "push"}
          /\ last'.exc \in {"TypeError", "ValueError"} )
        => /\ last'.reqs = <<>>
           /\ is_modern_api' = is_modern_api ]_vars

\* C13: after construction and any sequence of set_token calls, the session
\* carries an Authorization header exactly when the token is not empty, and
\* its value is "Bearer " followed by the current token.
C13_SessionAuthorizationFollowsToken ==
    phase = "ready" =>
        session.Authorization =
            IF token.val # <<>>
            THEN Str(<<"B","e","a","r","e","r"," ">> \o token.val)
            ELSE NoneV

====
